---------------------------- MODULE Spec2Model ----------------------------
(***************************************************************************)
(* Model of the smart-summary backend: the summarization pipeline          *)
(* (app/services/summarizer.py driven by app/api/routes/summary.py) and    *)
(* the pure helpers it rests on (app/services/token_manager.py).           *)
(*                                                                         *)
(* Texts are sequences of one-character strings, so that len(), slicing,   *)
(* lower() and substring search are computed as the code computes them.    *)
(*                                                                         *)
(* Specifications:                                                         *)
(*   SpecSanitize  _sanitize_input applied to bounded texts                *)
(*   SpecTruncate  TokenManager.truncate_to_limit applied to bounded texts *)
(*   SpecWords     _calculate_target_words applied to bounded inputs       *)
(*   Spec          one request through the streaming endpoint              *)
(***************************************************************************)
EXTENDS Integers, Sequences, FiniteSets, TLC

VARIABLES
    sanInput,           \* text handed to _sanitize_input
    sanOutput,          \* NotRun, or <<[raised |-> BOOLEAN, value |-> text]>>
    truncInput,         \* [text, max_tokens, preserve_end] handed to truncate_to_limit
    truncOutput,        \* NotRun, or <<returned text>>
    wordsInput,         \* [input_word_count, compression_ratio]
    target_word_count,  \* NotRun, or <<self.target_word_count>>
    chunkInput,         \* [text, chunk_size, overlap] handed to chunk_by_tokens
    chunkOutput,        \* NotRun, or <<outcome of chunk_by_tokens>>
    filterInput,        \* [scores, threshold] handed to filter_by_threshold
    filterOutput,       \* NotRun, or <<indices of the chunks returned>>
    sumInput,           \* what summarize_stream does: [fragments, raises]
    sumState,           \* NotRun, or <<[chunks, position, status, value]>> of summarize
    splitInput,         \* [text, max_size, overlap] handed to split_into_chunks
    splitOutput,        \* NotRun, or <<[overlap, text, chunks]>>
    extractInput,       \* [words, count, primary_fails] handed to extract_sentences
    extractOutput,      \* NotRun, or <<positions of the sentences returned>>
    rankInput,          \* the analysis of each chunk handed to rank_chunks_by_importance
    rankOutput,         \* NotRun, or <<ranked_chunks>>
    request,            \* the request and the settings it runs under
    pc,                 \* where generate_summary_stream stands
    events,             \* the SSE events sent so far
    text_len,           \* len(text) in summarize_stream
    target_words,       \* target_words of the run (0 before it is computed)
    n_chunks,           \* len(chunks) returned by split_into_chunks (0: not split)
    ranked,             \* ranked_chunks: <<original index, score>>, or <<>>
    chunks_to_process,  \* original indices of the chunks handed to the MAP phase
    words_per_chunk,    \* words_per_chunk (0 before it is computed)
    calls,              \* state of summarize_single_chunk(chunk, idx), by position
    results,            \* what each finished summarize_single_chunk returned
    batch_start,        \* i of the loop of _summarize_chunks_parallel
    gather,             \* state of the future of asyncio.gather
    chunk_summaries,    \* chunk_summaries of _summarize_chunks_parallel
    extracted,          \* NotRun, or <<[sentences per chunk, all_sentences]>>
    gen,                \* the generation call the stream passes through
    cancel_at           \* pc at which the caller cancelled ("" when it did not)

moreVars == <<chunkInput, chunkOutput, filterInput, filterOutput>>
lateVars == <<sumInput, sumState, splitInput, splitOutput, extractInput, extractOutput,
              rankInput, rankOutput>>
pureVars == <<sanInput, sanOutput, truncInput, truncOutput, wordsInput, target_word_count,
              moreVars, lateVars>>
pipeVars == <<request, pc, events, text_len, target_words, n_chunks, ranked,
              chunks_to_process, words_per_chunk, calls, results, batch_start, gather,
              chunk_summaries, extracted, gen, cancel_at>>
vars == <<pureVars, pipeVars>>

NotRun == <<>>

SummarizeIdle == sumInput = <<>> /\ sumState = NotRun
SplitIdle == splitInput = <<>> /\ splitOutput = NotRun
ExtractIdle == extractInput = <<>> /\ extractOutput = NotRun
RankIdle == rankInput = <<>> /\ rankOutput = NotRun

Max(a, b) == IF a >= b THEN a ELSE b
Min(a, b) == IF a <= b THEN a ELSE b

(***************************************************************************)
(* Bounds of the model.                                                    *)
(***************************************************************************)
MaxPieces == 2      \* a sanitized text is made of at most this many pieces
MaxLen    == 4      \* characters in a text given to truncate_to_limit
MaxTokens == 4      \* largest explicit max_tokens argument
MaxWords  == 400    \* largest input word count

(***************************************************************************)
(* SummarizerService._sanitize_input   (summarizer.py 64-92)               *)
(***************************************************************************)
special_tokens ==
    << <<"<", "|", "i", "m", "_", "s", "t", "a", "r", "t", "|", ">">>,
       <<"<", "|", "i", "m", "_", "e", "n", "d", "|", ">">>,
       <<"<", "|", "s", "y", "s", "t", "e", "m", "|", ">">>,
       <<"<", "|", "u", "s", "e", "r", "|", ">">>,
       <<"<", "|", "a", "s", "s", "i", "s", "t", "a", "n", "t", "|", ">">> >>

\* str.lower() on the ASCII letters the model's texts contain.
UpperLetters == <<"A", "D", "E", "I", "M", "N", "R", "S", "T", "U", "Y">>
LowerLetters == <<"a", "d", "e", "i", "m", "n", "r", "s", "t", "u", "y">>

LowerKeepsCase(c) == c

LowerChar(c) ==
    IF \E k \in 1..Len(UpperLetters) : UpperLetters[k] = c
    THEN LowerLetters[CHOOSE k \in 1..Len(UpperLetters) : UpperLetters[k] = c]
    ELSE c

Lower(text) == [k \in 1..Len(text) |-> LowerChar(text[k])]

\* Python's `needle in haystack` on strings.
Contains(haystack, needle) ==
    \E off \in 0..(Len(haystack) - Len(needle)) :
        \A k \in 1..Len(needle) : haystack[off + k] = needle[k]

\* The result of the call: the ValueError, or the returned text.
sanitize_input(text) ==
    LET text_lower == Lower(text)
    IN  IF \E t \in 1..Len(special_tokens) : Contains(text_lower, Lower(special_tokens[t]))
        THEN [raised |-> TRUE, value |-> <<>>]
        ELSE [raised |-> FALSE, value |-> text]

\* Pieces the sanitized texts are assembled from: the role markers in several
\* casings, markers split over two pieces, near misses and plain phrases.
SanPieces ==
    { special_tokens[t] : t \in 1..Len(special_tokens) } \cup
    { <<"<", "|", "I", "M", "_", "S", "T", "A", "R", "T", "|", ">">>,
      <<"<", "|", "I", "m", "_", "E", "n", "d", "|", ">">>,
      <<"<", "|", "S", "Y", "S", "T", "E", "M", "|", ">">>,
      <<"<", "|", "U", "s", "e", "r", "|", ">">>,
      <<"<", "|", "A", "S", "S", "I", "S", "T", "A", "N", "T", "|", ">">>,
      <<"<", "|", "s", "y", "s">>,
      <<"t", "e", "m", "|", ">">>,
      <<"<", "|", "i", "m", "_", "s", "t", "a", "r", "t">>,
      <<"<", "|", "u", "s", "e", "r", " ", "|", ">">>,
      <<"<", "u", "s", "e", "r", ">">>,
      <<"i", "g", "n", "o", "r", "e", " ", "p", "r", "e", "v", "i", "o", "u", "s", " ",
        "i", "n", "s", "t", "r", "u", "c", "t", "i", "o", "n", "s">>,
      <<"s", "y", "s", "t", "e", "m">>,
      <<" ">>,
      <<"|", ">">> }

RECURSIVE Concat(_)
Concat(pieces) == IF pieces = <<>> THEN <<>> ELSE Head(pieces) \o Concat(Tail(pieces))

SanTexts == { Concat(ps) : ps \in UNION { [1..n -> SanPieces] : n \in 0..MaxPieces } }

SanIdle == sanInput = <<>> /\ sanOutput = NotRun

Sanitize ==
    /\ sanOutput = NotRun
    /\ sanOutput' = <<sanitize_input(sanInput)>>
    /\ UNCHANGED <<sanInput, truncInput, truncOutput, wordsInput, target_word_count>>
    /\ UNCHANGED moreVars
    /\ UNCHANGED lateVars
    /\ UNCHANGED pipeVars

(***************************************************************************)
(* TokenManager   (token_manager.py)                                       *)
(***************************************************************************)
TOKEN_LIMIT == 200000

\* int(self.max_tokens * 0.9)
safe_max_tokens == (TOKEN_LIMIT * 9) \div 10

\* The encoding (tiktoken, outside the repository) is stood in for by a
\* word-level encoding: a run of letters is one token, a wide character "#"
\* (an emoji, a CJK character) is two tokens, any other character one token;
\* it refuses a text holding "$", which stands for a special-token literal.
Letters == {"a", "t", "e", "x", "o", "r", "u", "n", "c", "d"}

CharTokens(text, k) ==
    IF text[k] \in Letters
    THEN (IF k > 1 /\ text[k - 1] \in Letters THEN 0 ELSE 1)
    ELSE IF text[k] = "#" THEN 2 ELSE 1

RECURSIVE EncodeLenUpTo(_, _)
EncodeLenUpTo(text, k) ==
    IF k = 0 THEN 0 ELSE EncodeLenUpTo(text, k - 1) + CharTokens(text, k)

EncodeLen(text) == EncodeLenUpTo(text, Len(text))

EncodeRaises(text) == \E k \in 1..Len(text) : text[k] = "$"

count_tokens(text) ==
    IF text = <<>> THEN 0
    ELSE IF EncodeRaises(text) THEN Len(text) \div 4
    ELSE EncodeLen(text)

MarkerAfter ==
    <<"\n", "\n", "[", ".", ".", ".", " ", "t", "e", "x", "t", "o", " ",
      "t", "r", "u", "n", "c", "a", "d", "o", " ", ".", ".", ".", "]">>
MarkerBefore ==
    <<"[", ".", ".", ".", " ", "t", "e", "x", "t", "o", " ",
      "t", "r", "u", "n", "c", "a", "d", "o", " ", ".", ".", ".", "]", "\n", "\n">>

\* text[:k] and text[k:]
Prefix(text, k) == SubSeq(text, 1, k)
Suffix(text, k) == SubSeq(text, k + 1, Len(text))

\* The loop of lines 103-111.
RECURSIVE SearchPrefix(_, _, _, _, _)
SearchPrefix(text, target_tokens, left, right, result) ==
    IF left < right
    THEN LET mid == (left + right + 1) \div 2
             candidate == Prefix(text, mid)
         IN  IF count_tokens(candidate) <= target_tokens
             THEN SearchPrefix(text, target_tokens, mid, right, candidate)
             ELSE SearchPrefix(text, target_tokens, left, mid - 1, result)
    ELSE result

\* The loop of lines 86-94.
RECURSIVE SearchSuffix(_, _, _, _, _)
SearchSuffix(text, target_tokens, left, right, result) ==
    IF left < right
    THEN LET mid == (left + right) \div 2
             candidate == Suffix(text, mid)
         IN  IF count_tokens(candidate) <= target_tokens
             THEN SearchSuffix(text, target_tokens, left, mid, candidate)
             ELSE SearchSuffix(text, target_tokens, mid + 1, right, result)
    ELSE result

\* max_tokens is <<>> for None and <<n>> for the integer n.
TargetTokens(max_tokens) ==
    IF max_tokens = <<>> \/ max_tokens[1] = 0 THEN safe_max_tokens ELSE max_tokens[1]

truncate_strict(text, max_tokens, preserve_end) ==
    IF text = <<>> THEN text
    ELSE LET target_tokens == TargetTokens(max_tokens)
         IN  IF count_tokens(text) < target_tokens THEN text
             ELSE IF preserve_end
                  THEN MarkerBefore \o SearchSuffix(text, target_tokens, 0, Len(text), text)
                  ELSE SearchPrefix(text, target_tokens, 0, Len(text), text) \o MarkerAfter

truncate_to_limit(text, max_tokens, preserve_end) ==
    IF text = <<>> THEN text
    ELSE LET target_tokens == TargetTokens(max_tokens)
             current_tokens == count_tokens(text)
         IN  IF current_tokens <= target_tokens THEN text
             ELSE IF preserve_end
                  THEN MarkerBefore \o SearchSuffix(text, target_tokens, 0, Len(text), text)
                  ELSE SearchPrefix(text, target_tokens, 0, Len(text), text) \o MarkerAfter

TruncAlphabet == {"a", " ", "#", "$"}
TruncTexts == UNION { [1..n -> TruncAlphabet] : n \in 0..MaxLen }
TruncLimits == {<<>>} \cup { <<n>> : n \in 0..MaxTokens }

TruncIdle == truncInput = <<>> /\ truncOutput = NotRun

Truncate ==
    /\ truncOutput = NotRun
    /\ truncOutput' = <<truncate_to_limit(truncInput.text, truncInput.max_tokens,
                                          truncInput.preserve_end)>>
    /\ UNCHANGED <<sanInput, sanOutput, truncInput, wordsInput, target_word_count>>
    /\ UNCHANGED moreVars
    /\ UNCHANGED lateVars
    /\ UNCHANGED pipeVars

(***************************************************************************)
(* SummarizerService._calculate_target_words   (summarizer.py 56-62)       *)
(* The input is the word count len(text.split()); the compression ratio is *)
(* a fraction <<num, den>> with a power-of-two denominator, for which the  *)
(* floating-point product of the code is exact.                            *)
(***************************************************************************)
Ratios == { <<1, 16>>, <<1, 8>>, <<13, 64>>, <<1, 4>>, <<3, 8>>, <<1, 2>> }

\* int(x) of a non-negative fraction num/den
IntOf(num, den) == num \div den

\* Python's round(x): to the nearest integer, ties to the even one.
RoundOf(num, den) ==
    LET q == num \div den
        r == num % den
    IN  IF 2 * r > den THEN q + 1
        ELSE IF 2 * r < den THEN q
        ELSE IF q % 2 = 0 THEN q ELSE q + 1

calculate_target_words_rounded(input_word_count, compression_ratio) ==
    Max(50, RoundOf(input_word_count * compression_ratio[1], compression_ratio[2]))

calculate_target_words(input_word_count, compression_ratio) ==
    Max(50, IntOf(input_word_count * compression_ratio[1], compression_ratio[2]))

WordsIdle == wordsInput = <<>> /\ target_word_count = NotRun

CalculateTargetWords ==
    /\ target_word_count = NotRun
    /\ target_word_count' = <<calculate_target_words(wordsInput.input_word_count,
                                                     wordsInput.compression_ratio)>>
    /\ UNCHANGED <<sanInput, sanOutput, truncInput, truncOutput, wordsInput>>
    /\ UNCHANGED moreVars
    /\ UNCHANGED lateVars
    /\ UNCHANGED pipeVars


(***************************************************************************)
(* TokenManager.chunk_by_tokens   (token_manager.py 140-221)               *)
(*                                                                         *)
(* A text is [len, tokens, refused]: len(text), the number of tokens        *)
(* encoding.encode(text) returns, and whether encode raises on it.  A chunk *)
(* is <<start, end>>, the slice tokens[start:end] it decodes.               *)
(***************************************************************************)
CHAR_CEILING == 200000

MaxTotal     == 8   \* tokens of the short texts
MaxChunkSize == 4   \* largest chunk_size tried on the short texts
MaxOverlap   == 5   \* largest overlap tried on the short texts

TooLargeFrom(len) == len >= CHAR_CEILING

\* line 169
TooLarge(len) == len > CHAR_CEILING

\* an overlap as large as the chunk size cut to one token less than it
ClampOverlapToChunkSize(chunk_size, overlap) ==
    IF overlap >= chunk_size THEN chunk_size - 1 ELSE overlap

\* lines 184-186
ClampOverlap(chunk_size, overlap) ==
    IF overlap >= chunk_size THEN chunk_size \div 2 ELSE overlap

\* line 191
MaxIterations(total_tokens, chunk_size, overlap) ==
    total_tokens \div (chunk_size - overlap) + 5

NextStartStuck(end, chunk_size, overlap) == end - chunk_size

\* lines 214-219: the start of the next chunk
NextStart(end, chunk_size, overlap) ==
    LET start == end - overlap
    IN  IF start + chunk_size <= end THEN end - overlap \div 2 ELSE start

\* The while loop of lines 193-219.  broke: the loop was left by the
\* iteration limit of lines 196-200.
RECURSIVE ChunkLoop(_, _, _, _, _, _, _)
ChunkLoop(total_tokens, chunk_size, overlap, max_iterations, start, iteration_count, chunks) ==
    IF ~(start < total_tokens)
    THEN [chunks |-> chunks, iterations |-> iteration_count, broke |-> FALSE]
    ELSE IF iteration_count + 1 > max_iterations
    THEN [chunks |-> chunks, iterations |-> iteration_count + 1, broke |-> TRUE]
    ELSE LET end == Min(start + chunk_size, total_tokens)
             appended == Append(chunks, <<start, end>>)
         IN  IF end >= total_tokens
             THEN [chunks |-> appended, iterations |-> iteration_count + 1, broke |-> FALSE]
             ELSE ChunkLoop(total_tokens, chunk_size, overlap, max_iterations,
                            NextStart(end, chunk_size, overlap), iteration_count + 1, appended)

NoLoop == [chunks |-> <<>>, iterations |-> 0, broke |-> FALSE]

\* The outcome: raised is "none", "too_large" (the ValueError of line 170) or
\* "encode" (encoding.encode raised); encoded tells whether encode was called.
chunk_by_tokens(text, chunk_size, overlap) ==
    IF text.len = 0
    THEN [raised |-> "none", encoded |-> FALSE, overlap |-> overlap, loop |-> NoLoop]
    ELSE IF TooLarge(text.len)
    THEN [raised |-> "too_large", encoded |-> FALSE, overlap |-> overlap, loop |-> NoLoop]
    ELSE IF text.refused
    THEN [raised |-> "encode", encoded |-> TRUE, overlap |-> overlap, loop |-> NoLoop]
    ELSE IF text.tokens <= chunk_size
    THEN [raised |-> "none", encoded |-> TRUE, overlap |-> overlap,
          loop |-> [NoLoop EXCEPT !.chunks = << <<0, text.tokens>> >>]]
    ELSE LET clamped == ClampOverlap(chunk_size, overlap)
         IN  [raised |-> "none", encoded |-> TRUE, overlap |-> clamped,
              loop |-> ChunkLoop(text.tokens, chunk_size, clamped,
                                 MaxIterations(text.tokens, chunk_size, clamped),
                                 0, 0, <<>>)]

\* Short texts of one token per character, and texts around the ceiling (of
\* one token per character, or per four characters) with the chunk size of
\* the test of the ceiling.
ChunkInputs ==
    [ text : { [len |-> t, tokens |-> t, refused |-> r] : t \in 0..MaxTotal, r \in BOOLEAN },
      chunk_size : 1..MaxChunkSize,
      overlap : 0..MaxOverlap ]
    \cup
    [ text : { [len |-> l, tokens |-> l \div d, refused |-> r] :
                 l \in {CHAR_CEILING - 1, CHAR_CEILING, CHAR_CEILING + 1, CHAR_CEILING + 50001},
                 d \in {1, 4}, r \in BOOLEAN },
      chunk_size : {50000},
      overlap : {0, 500} ]

ChunkIdle == chunkInput = <<>> /\ chunkOutput = NotRun

ChunkByTokens ==
    /\ chunkOutput = NotRun
    /\ chunkOutput' = <<chunk_by_tokens(chunkInput.text, chunkInput.chunk_size,
                                        chunkInput.overlap)>>
    /\ UNCHANGED <<sanInput, sanOutput, truncInput, truncOutput, wordsInput,
                   target_word_count, chunkInput, filterInput, filterOutput>>
    /\ UNCHANGED lateVars
    /\ UNCHANGED pipeVars

(***************************************************************************)
(* Settings   (core/config.py)                                             *)
(***************************************************************************)
HIERARCHICAL_CHUNK_SIZE == 100000
DETAILED_CHUNK_SIZE == 100000
MAX_PARALLEL_CHUNKS == 5
SIMPLE_TEXT_WINDOW == 10000     \* text[:10000] in _simple_summarization

\* Bounds of the pipeline model.
MaxChunks == 6      \* most chunks split_into_chunks returns
MaxFrags  == 2      \* most fragments one streamed generation call delivers
MaxScore  == 1      \* largest importance score of a chunk
MaxSentences == 1   \* most sentences extract_sentences returns for a chunk

(***************************************************************************)
(* The request.  A document is [len, density, word_len]: len(text), its    *)
(* tokens per character as a fraction <<num, den>>, and its characters per *)
(* word.  The body is the part of the text the entry gate looks at.        *)
(***************************************************************************)
PlainBody ==
    <<"i", "g", "n", "o", "r", "e", " ", "p", "r", "e", "v", "i", "o", "u", "s", " ",
      "i", "n", "s", "t", "r", "u", "c", "t", "i", "o", "n", "s">>
MarkerBody == <<"a", " ", "<", "|", "S", "Y", "S", "T", "E", "M", "|", ">", " ", "a">>

\* A document: its length in characters, its tokens per character and its
\* characters per whitespace-separated word (prose; and a text of long
\* unbroken runs, as in a script written without spaces); a blank document
\* is made of whitespace only, as a caller of the service can hand in.
Documents ==
    { [len |-> 100,    density |-> <<1, 4>>, word_len |-> 6, blank |-> FALSE],
      [len |-> 99999,  density |-> <<1, 4>>, word_len |-> 6, blank |-> FALSE],
      [len |-> 100000, density |-> <<1, 4>>, word_len |-> 6, blank |-> FALSE],
      [len |-> 300000, density |-> <<1, 4>>, word_len |-> 6, blank |-> FALSE],
      [len |-> 300000, density |-> <<1, 2>>, word_len |-> 1500, blank |-> FALSE],
      [len |-> 90000,  density |-> <<2, 1>>, word_len |-> 6, blank |-> FALSE],
      [len |-> 99999,  density |-> <<2, 1>>, word_len |-> 6, blank |-> FALSE],
      [len |-> 99999,  density |-> <<9001, 5000>>, word_len |-> 6, blank |-> FALSE],
      [len |-> 300000, density |-> <<1, 1>>, word_len |-> 6, blank |-> FALSE],
      [len |-> 100000, density |-> <<1, 4>>, word_len |-> 6, blank |-> TRUE] }

Strategies == {"simple", "hierarchical", "detailed", "unknown"}

Requests ==
    [ strategy : Strategies,
      body : {PlainBody, MarkerBody},
      doc : Documents,
      compression_ratio : { <<1, 4>> },
      USE_RELEVANCE_FILTERING : BOOLEAN ]

\* count_tokens(text) of a document
DocTokens(doc) == (doc.len * doc.density[1]) \div doc.density[2]

needs_truncation_at_hard_limit(doc) == DocTokens(doc) > TOKEN_LIMIT

\* get_token_info(text)["needs_truncation"]
needs_truncation(doc) == DocTokens(doc) > safe_max_tokens

\* len(truncate_to_limit(text)) of a document over the safe limit: the longest
\* prefix of at most safe_max_tokens tokens, and the marker.
TruncatedLen(doc) ==
    ((safe_max_tokens + 1) * doc.density[2] - 1) \div doc.density[1] + Len(MarkerAfter)

\* _count_words(text) = len(text.split()) of the first len characters of a
\* document
count_words(len, doc) == IF doc.blank THEN 0 ELSE len \div doc.word_len

\* len(preprocess(text)) for the first len characters of a document, where it
\* decides the outcome: nothing is left of a blank text (any other text keeps
\* at least one character, and at most len)
LenAfterPreprocess(len, doc) == IF doc.blank THEN 0 ELSE len

(***************************************************************************)
(* The SSE events of generate_summary_stream   (routes/summary.py 52-84)   *)
(***************************************************************************)
ContentEvent(chunk) == [type |-> "content", content |-> chunk, done |-> FALSE]
CompleteEvent == [type |-> "complete", content |-> "", done |-> TRUE]
ErrorEvent == [type |-> "error", content |-> "", done |-> TRUE]

\* lines 61-63
EmitContent(ev, chunk) == Append(ev, ContentEvent(chunk))
\* lines 65-67
EmitComplete(ev) == Append(ev, CompleteEvent)

OnValueErrorSilent(ev) == ev

\* lines 75-78
OnValueError(ev) == Append(ev, ErrorEvent)

OnExceptionTwice(ev) == Append(Append(ev, ErrorEvent), ErrorEvent)

OnExceptionThenComplete(ev) == Append(Append(ev, ErrorEvent), CompleteEvent)

\* lines 80-84
OnException(ev) == Append(ev, ErrorEvent)

(***************************************************************************)
(* Chunking and ranking                                                    *)
(***************************************************************************)
\* len(split_into_chunks(text, max_size, ...)): the (non-blank) text is one
\* chunk when it fits max_size; a longer one may be shortened by preprocess.
SplitCounts(len, max_size) ==
    IF len = 0 THEN {0} ELSE IF len <= max_size THEN {1} ELSE 1..MaxChunks

\* Importance scores of n chunks: at most two chunks score above zero.
ScoreVectors(n) ==
    { s \in [1..n -> 0..MaxScore] : Cardinality({ k \in 1..n : s[k] > 0 }) <= 2 }

\* chunk_scores.sort(key=score, reverse=True): a stable sort, scores descending.
\* Chunk indices are 1-based here (idx + 1 of the code).
RankPosition(scores, k) ==
    1 + Cardinality({ j \in DOMAIN scores : scores[j] > scores[k] })
      + Cardinality({ j \in DOMAIN scores : j < k /\ scores[j] = scores[k] })

rank_chunks_by_importance(scores) ==
    [ p \in DOMAIN scores |->
        LET k == CHOOSE j \in DOMAIN scores : RankPosition(scores, j) = p
        IN  <<k, scores[k]>> ]

(***************************************************************************)
(* RelevanceDetector.filter_by_threshold   (relevance_detector.py 135-167) *)
(*                                                                         *)
(* The chunks are named by their 1-based index; scores[k] is the           *)
(* importance of chunk k in whole units, the threshold a fraction          *)
(* <<numerator, denominator>>.                                             *)
(***************************************************************************)
MaxFilterChunks == 3    \* chunks given to filter_by_threshold
MaxRating       == 2    \* largest importance of a chunk

Thresholds == { <<0, 1>>, <<1, 2>>, <<1, 1>>, <<101, 100>>, <<2, 1>> }

\* max(score for _, _, score in ranked)
MaxScoreOf(by_score) ==
    CHOOSE m \in { by_score[p][2] : p \in 1..Len(by_score) } :
        \A p \in 1..Len(by_score) : by_score[p][2] <= m

\* (score / max_score) >= threshold, for max_score > 0
AtLeastThreshold(score, max_score, threshold) ==
    score * threshold[2] >= threshold[1] * max_score

\* lines 159-161
FilterRanked(by_score, threshold) ==
    LET kept == SelectSeq(by_score, LAMBDA r : AtLeastThreshold(r[2], MaxScoreOf(by_score), threshold))
    IN  [p \in 1..Len(kept) |-> kept[p][1]]

filter_by_threshold_may_be_empty(scores, threshold) ==
    LET by_score == rank_chunks_by_importance(scores)
    IN  IF by_score = <<>> \/ MaxScoreOf(by_score) = 0
        THEN [k \in 1..Len(scores) |-> k]
        ELSE FilterRanked(by_score, threshold)

filter_by_threshold(scores, threshold) ==
    LET chunks == [k \in 1..Len(scores) |-> k]
        by_score == rank_chunks_by_importance(scores)
    IN  IF by_score = <<>>
        THEN chunks
        ELSE IF MaxScoreOf(by_score) = 0
        THEN chunks
        ELSE LET filtered == FilterRanked(by_score, threshold)
             IN  IF filtered = <<>> THEN <<by_score[1][1]>> ELSE filtered

FilterInputs ==
    [ scores : UNION { [1..n -> 0..MaxRating] : n \in 0..MaxFilterChunks },
      threshold : Thresholds ]

FilterIdle == filterInput = <<>> /\ filterOutput = NotRun

FilterByThreshold ==
    /\ filterOutput = NotRun
    /\ filterOutput' = <<filter_by_threshold(filterInput.scores, filterInput.threshold)>>
    /\ UNCHANGED <<sanInput, sanOutput, truncInput, truncOutput, wordsInput,
                   target_word_count, chunkInput, chunkOutput, filterInput>>
    /\ UNCHANGED lateVars
    /\ UNCHANGED pipeVars

MoreIdle == ChunkIdle /\ FilterIdle
LateIdle == SummarizeIdle /\ SplitIdle /\ ExtractIdle /\ RankIdle

priority_count_rounded_up(n) == Max(2, (n * 7 + 9) \div 10)

\* max(2, int(len(chunks) * settings.PRIORITY_CHUNK_RATIO)), the ratio being 0.7
priority_count(n) == Max(2, (n * 7) \div 10)

\* lines 215-227
ChunksToProcess(filtering, scores) ==
    LET n == Len(scores)
    IN  IF filtering /\ n > 3
        THEN LET ranked_chunks == rank_chunks_by_importance(scores)
             IN  [ p \in 1..Min(priority_count(n), n) |-> ranked_chunks[p][1] ]
        ELSE [ p \in 1..n |-> p ]

WordsPerChunkRoundedUp(target, count) == Max(50, (target + count - 1) \div count)

\* line 230
WordsPerChunk(target, count) == Max(50, target \div count)

BatchTooWide(i, total) == (i + 1)..Min(i + MAX_PARALLEL_CHUNKS + 1, total)

\* chunks[i : i + max_parallel], as 1-based positions (lines 303-305)
Batch(i, total) == (i + 1)..Min(i + MAX_PARALLEL_CHUNKS, total)

Positions == 1..MaxChunks

NoCalls == [p \in Positions |-> "none"]
NoResults == [p \in Positions |-> "none"]
NoGen == [status |-> "none", kind |-> "none", carries |-> "none", chars |-> 0, frags |-> 0]

PipeIdle ==
    /\ request = <<>>
    /\ pc = "idle"
    /\ events = <<>>
    /\ text_len = 0
    /\ target_words = 0
    /\ n_chunks = 0
    /\ ranked = <<>>
    /\ chunks_to_process = <<>>
    /\ words_per_chunk = 0
    /\ calls = NoCalls
    /\ results = NoResults
    /\ batch_start = 0
    /\ gather = "none"
    /\ chunk_summaries = <<>>
    /\ extracted = NotRun
    /\ gen = NoGen
    /\ cancel_at = ""

PureIdle == SanIdle /\ TruncIdle /\ WordsIdle /\ MoreIdle /\ LateIdle

(***************************************************************************)
(* One request through generate_summary_stream and summarize_stream.       *)
(*                                                                         *)
(* pc: "init"     the response generator has not run yet                   *)
(*     "advised"  suspended at the yield of the truncation advisory        *)
(*     "map"      awaiting asyncio.gather of the current batch     *)
(*     "stream"   passing the fragments of one generation call through     *)
(*     "single"   suspended at `yield chunk_summaries[0]`                  *)
(*     "done", "error"   the terminal event was sent                       *)
(*     "cancelled"       CancelledError left the generator                 *)
(***************************************************************************)
InFlight == { p \in Positions : calls[p] = "inflight" }
Live == { p \in Positions : calls[p] \in {"scheduled", "inflight"} }

\* The first __anext__ of llm_service.generate_stream: the call is issued.
StartGeneration(kind, carries, chars) ==
    /\ gen' = [status |-> "inflight", kind |-> kind, carries |-> carries,
               chars |-> chars, frags |-> 0]
    /\ pc' = "stream"

\* _simple_summarization (lines 158-186): the prompt holds text[:10000].
SimpleSummarization(len) ==
    /\ StartGeneration("simple", "text", Min(len, SIMPLE_TEXT_WINDOW))
    /\ UNCHANGED <<events, n_chunks, ranked, chunks_to_process, words_per_chunk, calls,
                   results, batch_start, gather, chunk_summaries, extracted>>

BelowThresholdNever(len) == FALSE

\* line 197
BelowThreshold(len) == len < HIERARCHICAL_CHUNK_SIZE

\* _hierarchical_summarization up to the first await of gather (lines 196-235
\* and 298-320).
HierarchicalSummarization(len, target) ==
    IF BelowThreshold(len)
    THEN SimpleSummarization(len)
    ELSE \E n \in SplitCounts(LenAfterPreprocess(len, request.doc), HIERARCHICAL_CHUNK_SIZE) :
         \E scores \in ScoreVectors(n) :
           LET filtering == request.USE_RELEVANCE_FILTERING
               to_process == ChunksToProcess(filtering, scores)
               total == Len(to_process)
           IN  /\ n_chunks' = n
               /\ ranked' = IF filtering /\ n > 3
                            THEN rank_chunks_by_importance(scores) ELSE <<>>
               /\ chunks_to_process' = to_process
               /\ IF total = 0
                  THEN \* target_words // len(chunks_to_process): ZeroDivisionError
                       /\ events' = OnException(events)
                       /\ pc' = "error"
                       /\ UNCHANGED <<words_per_chunk, batch_start, calls, gather>>
                  ELSE /\ words_per_chunk' = WordsPerChunk(target, total)
                       /\ batch_start' = 0
                       /\ calls' = [p \in Positions |->
                                      IF p \in Batch(0, total) THEN "scheduled" ELSE "none"]
                       /\ gather' = "pending"
                       /\ pc' = "map"
                       /\ UNCHANGED events
               /\ UNCHANGED <<results, chunk_summaries, extracted, gen>>

SectionBlockZeroBased(i, count) ==
    IF count = 0
    THEN <<>>
    ELSE <<[kind |-> "label", section |-> i]>>
         \o [s \in 1..count |-> [kind |-> "sentence", section |-> i]]
         \o <<[kind |-> "blank", section |-> i]>>

\* The lines one chunk adds to all_sentences (lines 394-397): nothing when
\* extract_sentences returned no sentence, else the label of section i + 1
\* (i the 0-based index of the chunk), its sentences and an empty line.
SectionBlock(i, count) ==
    IF count = 0
    THEN <<>>
    ELSE <<[kind |-> "label", section |-> i + 1]>>
         \o [s \in 1..count |-> [kind |-> "sentence", section |-> i + 1]]
         \o <<[kind |-> "blank", section |-> i + 1]>>

\* _map_extract_sentences (lines 373-399): counts[k] is the number of
\* sentences extract_sentences returns for the k-th chunk.
RECURSIVE map_extract_sentences(_)
map_extract_sentences(counts) ==
    IF counts = <<>>
    THEN <<>>
    ELSE LET n == Len(counts)
         IN  map_extract_sentences(SubSeq(counts, 1, n - 1))
             \o SectionBlock(n - 1, counts[n])

\* _detailed_summarization up to its generation call (lines 335-371).
DetailedSummarization(len) ==
    \E n \in SplitCounts(LenAfterPreprocess(len, request.doc), DETAILED_CHUNK_SIZE) :
    \E counts \in [1..n -> 0..MaxSentences] :
        /\ n_chunks' = n
        /\ extracted' = << [sentences |-> counts,
                           all_sentences |-> map_extract_sentences(counts)] >>
        /\ StartGeneration("detailed", "extracted", 0)
        /\ UNCHANGED <<events, ranked, chunks_to_process, words_per_chunk, calls, results,
                       batch_start, gather, chunk_summaries>>

\* summarize_stream from line 131 on: the strategy is chosen.
Dispatch(len) ==
    LET target == calculate_target_words(count_words(len, request.doc), request.compression_ratio)
    IN  /\ target_words' = target
        /\ text_len' = len
        /\ CASE request.strategy = "simple" -> SimpleSummarization(len)
             [] request.strategy = "detailed" -> DetailedSummarization(len)
             [] OTHER -> HierarchicalSummarization(len, target)

\* The generator starts: the entry gate, the token check, and either the
\* advisory or the strategy (summarizer.py 115-148, routes/summary.py 54-78).
StartStream ==
    /\ pc = "init"
    /\ IF sanitize_input(request.body).raised
       THEN /\ events' = OnValueError(events)
            /\ pc' = "error"
            /\ UNCHANGED <<text_len, target_words, n_chunks, ranked, chunks_to_process,
                           words_per_chunk, calls, results, batch_start, gather,
                           chunk_summaries, extracted, gen>>
       ELSE IF needs_truncation(request.doc)
       THEN /\ text_len' = TruncatedLen(request.doc)
            /\ events' = EmitContent(events, "advisory")
            /\ pc' = "advised"
            /\ UNCHANGED <<target_words, n_chunks, ranked, chunks_to_process,
                           words_per_chunk, calls, results, batch_start, gather,
                           chunk_summaries, extracted, gen>>
       ELSE Dispatch(text_len)
    /\ UNCHANGED <<request, cancel_at>>
    /\ UNCHANGED pureVars

\* The generator is resumed after the advisory.
ResumeAfterAdvisory ==
    /\ pc = "advised"
    /\ Dispatch(text_len)
    /\ UNCHANGED <<request, cancel_at>>
    /\ UNCHANGED pureVars

\* A task of the batch runs its first step and issues its generation call.
TaskStart(p) ==
    /\ calls[p] = "scheduled"
    /\ calls' = [calls EXCEPT ![p] = "inflight"]
    /\ UNCHANGED <<request, pc, events, text_len, target_words, n_chunks, ranked,
                   chunks_to_process, words_per_chunk, results, batch_start, gather,
                   chunk_summaries, extracted, gen, cancel_at>>
    /\ UNCHANGED pureVars

CurrentBatch == Batch(batch_start, Len(chunks_to_process))

\* summarize_single_chunk returns "".join(summary_parts): the empty string
\* when the call delivered no non-empty fragment.  gather's future gets its
\* result when the last task of the batch is done.
TaskFinish(p) ==
    /\ calls[p] = "inflight"
    /\ \E summary \in {"", "S"} : results' = [results EXCEPT ![p] = summary]
    /\ calls' = [calls EXCEPT ![p] = "done"]
    /\ gather' = IF gather = "pending" /\ \A q \in CurrentBatch : calls'[q] = "done"
                 THEN "result" ELSE gather
    /\ UNCHANGED <<request, pc, events, text_len, target_words, n_chunks, ranked,
                   chunks_to_process, words_per_chunk, batch_start, chunk_summaries,
                   extracted, gen, cancel_at>>
    /\ UNCHANGED pureVars

\* The generation call of a task raises: gather (return_exceptions=False)
\* hands the first exception to its future and leaves the other tasks running.
TaskFail(p) ==
    /\ calls[p] = "inflight"
    /\ calls' = [calls EXCEPT ![p] = "failed"]
    /\ gather' = IF gather = "pending" THEN "exception" ELSE gather
    /\ UNCHANGED <<request, pc, events, text_len, target_words, n_chunks, ranked,
                   chunks_to_process, words_per_chunk, results, batch_start,
                   chunk_summaries, extracted, gen, cancel_at>>
    /\ UNCHANGED pureVars

MoreBatchesNever(next, total) == FALSE

\* line 303: for i in range(0, len(chunks), max_parallel)
MoreBatches(next, total) == next < total

NeedsReduceAlways(summaries) == Len(summaries) >= 1

\* line 238
NeedsReduce(summaries) == Len(summaries) > 1

\* `await asyncio.gather` returns: the summaries are appended, and
\* the next batch is started or the summaries are combined (lines 320-323,
\* 237-260).
GatherReturns ==
    /\ pc = "map"
    /\ gather = "result"
    /\ LET total == Len(chunks_to_process)
           summaries == chunk_summaries \o
                        [k \in 1..Cardinality(CurrentBatch) |-> results[batch_start + k]]
           next == batch_start + MAX_PARALLEL_CHUNKS
       IN  /\ chunk_summaries' = summaries
           /\ IF MoreBatches(next, total)
              THEN /\ batch_start' = next
                   /\ calls' = [p \in Positions |->
                                  IF p \in Batch(next, total) THEN "scheduled" ELSE calls[p]]
                   /\ gather' = "pending"
                   /\ UNCHANGED <<pc, events, gen>>
              ELSE /\ gather' = "none"
                   /\ UNCHANGED <<batch_start, calls>>
                   /\ IF NeedsReduce(summaries)
                      THEN /\ StartGeneration("reduce", "summaries", 0)
                           /\ UNCHANGED events
                      ELSE /\ events' = EmitContent(events, summaries[1])
                           /\ pc' = "single"
                           /\ UNCHANGED gen
    /\ UNCHANGED <<request, text_len, target_words, n_chunks, ranked, chunks_to_process,
                   words_per_chunk, results, extracted, cancel_at>>
    /\ UNCHANGED pureVars

\* `await asyncio.gather` raises the exception of a task; it leaves
\* summarize_stream and the route sends the error event.
GatherRaises ==
    /\ pc = "map"
    /\ gather = "exception"
    /\ events' = OnException(events)
    /\ pc' = "error"
    /\ UNCHANGED <<request, text_len, target_words, n_chunks, ranked, chunks_to_process,
                   words_per_chunk, calls, results, batch_start, gather, chunk_summaries,
                   extracted, gen, cancel_at>>
    /\ UNCHANGED pureVars

\* The model delivers a fragment; generate_stream drops an empty one
\* (llm_service.py 80-82), the others become content events.
StreamFragment ==
    /\ pc = "stream"
    /\ gen.status = "inflight"
    /\ gen.frags < MaxFrags
    /\ gen' = [gen EXCEPT !.frags = @ + 1]
    /\ \E content \in {"", "x"} :
          events' = IF content # "" THEN EmitContent(events, content) ELSE events
    /\ UNCHANGED <<request, pc, text_len, target_words, n_chunks, ranked,
                   chunks_to_process, words_per_chunk, calls, results, batch_start, gather,
                   chunk_summaries, extracted, cancel_at>>
    /\ UNCHANGED pureVars

\* The generation call ends; the strategy and summarize_stream return and
\* the route sends the completion event.
StreamEnds ==
    /\ pc = "stream"
    /\ gen.status = "inflight"
    /\ gen' = [gen EXCEPT !.status = "done"]
    /\ events' = EmitComplete(events)
    /\ pc' = "done"
    /\ UNCHANGED <<request, text_len, target_words, n_chunks, ranked, chunks_to_process,
                   words_per_chunk, calls, results, batch_start, gather, chunk_summaries,
                   extracted, cancel_at>>
    /\ UNCHANGED pureVars

\* The generation call raises; the route sends the error event.
StreamFails ==
    /\ pc = "stream"
    /\ gen.status = "inflight"
    /\ gen' = [gen EXCEPT !.status = "failed"]
    /\ events' = OnException(events)
    /\ pc' = "error"
    /\ UNCHANGED <<request, text_len, target_words, n_chunks, ranked, chunks_to_process,
                   words_per_chunk, calls, results, batch_start, gather, chunk_summaries,
                   extracted, cancel_at>>
    /\ UNCHANGED pureVars

\* The generator is resumed after `yield chunk_summaries[0]` and returns.
SingleCompletes ==
    /\ pc = "single"
    /\ events' = EmitComplete(events)
    /\ pc' = "done"
    /\ UNCHANGED <<request, text_len, target_words, n_chunks, ranked, chunks_to_process,
                   words_per_chunk, calls, results, batch_start, gather, chunk_summaries,
                   extracted, gen, cancel_at>>
    /\ UNCHANGED pureVars

\* The caller disconnects: CancelledError is thrown into the task at the
\* point where it waits.  Waiting on a pending gather future, the
\* cancellation is passed to the tasks of the batch; when that future is
\* already done (its result or exception not yet picked up), it is not.
\* A task cancelled before its first step never issues its call ("dropped").
\* Both handlers re-raise (summarizer.py 153-156, routes/summary.py 69-73).
Cancel ==
    /\ pc \in {"advised", "map", "stream", "single"}
    /\ cancel_at' = pc
    /\ pc' = "cancelled"
    /\ IF pc = "map" /\ gather = "pending"
       THEN /\ calls' = [p \in Positions |->
                           CASE calls[p] = "inflight" -> "cancelled"
                             [] calls[p] = "scheduled" -> "dropped"
                             [] OTHER -> calls[p]]
            /\ gather' = "cancelled"
       ELSE UNCHANGED <<calls, gather>>
    /\ gen' = IF gen.status = "inflight" THEN [gen EXCEPT !.status = "cancelled"] ELSE gen
    /\ UNCHANGED <<request, events, text_len, target_words, n_chunks, ranked,
                   chunks_to_process, words_per_chunk, results, batch_start,
                   chunk_summaries, extracted>>
    /\ UNCHANGED pureVars

Init ==
    /\ PureIdle
    /\ request \in Requests
    /\ pc = "init"
    /\ events = <<>>
    /\ text_len = request.doc.len
    /\ target_words = 0
    /\ n_chunks = 0
    /\ ranked = <<>>
    /\ chunks_to_process = <<>>
    /\ words_per_chunk = 0
    /\ calls = NoCalls
    /\ results = NoResults
    /\ batch_start = 0
    /\ gather = "none"
    /\ chunk_summaries = <<>>
    /\ extracted = NotRun
    /\ gen = NoGen
    /\ cancel_at = ""

Next ==
    \/ StartStream
    \/ ResumeAfterAdvisory
    \/ \E p \in Positions : TaskStart(p)
    \/ \E p \in Positions : TaskFinish(p)
    \/ \E p \in Positions : TaskFail(p)
    \/ GatherReturns
    \/ GatherRaises
    \/ StreamFragment
    \/ StreamEnds
    \/ StreamFails
    \/ SingleCompletes
    \/ Cancel

Spec == Init /\ [][Next]_vars

(***************************************************************************)
(* Claims about the pure helpers.                                          *)
(***************************************************************************)
\* Case-insensitive comparison of two characters, stated from the letter
\* tables and not from Lower.
CasePairs ==
    { <<UpperLetters[k], LowerLetters[k]>> : k \in 1..Len(UpperLetters) }
    \cup { <<LowerLetters[k], UpperLetters[k]>> : k \in 1..Len(UpperLetters) }

CaseEq(a, b) == a = b \/ <<a, b>> \in CasePairs

HasRoleMarker(text) ==
    \E t \in 1..Len(special_tokens) :
        \E off \in 0..(Len(text) - Len(special_tokens[t])) :
            \A k \in 1..Len(special_tokens[t]) : CaseEq(text[off + k], special_tokens[t][k])

\* C4: _sanitize_input raises exactly when the text holds one of the five
\* role markers in any casing, and otherwise returns the text unchanged.
C4_GateIffRoleMarker ==
    sanOutput # NotRun =>
        /\ sanOutput[1].raised <=> HasRoleMarker(sanInput)
        /\ ~sanOutput[1].raised => sanOutput[1].value = sanInput

\* A marker that matches only through case folding was refused.
C4_Witness ==
    /\ sanOutput # NotRun
    /\ sanOutput[1].raised
    /\ \A t \in 1..Len(special_tokens) : ~Contains(sanInput, special_tokens[t])

TruncDone == truncOutput # NotRun
TruncN == truncInput.max_tokens[1]

\* C6: the text truncate_to_limit(text, N) returns, marker included, counts
\* at most N tokens.
C6_TruncatedFitsLimit ==
    (TruncDone /\ truncInput.max_tokens # <<>>) => count_tokens(truncOutput[1]) <= TruncN

\* C7: a text of at most max_tokens tokens is returned exactly unchanged,
\* whether the end or the beginning would be preserved.
C7_WithinLimitUnchanged ==
    (TruncDone /\ truncInput.max_tokens # <<>> /\ count_tokens(truncInput.text) <= TruncN)
        => truncOutput[1] = truncInput.text

\* A non-empty text of exactly max_tokens tokens came back unchanged.
C7_Witness ==
    /\ TruncDone
    /\ truncInput.max_tokens # <<>>
    /\ truncInput.text # <<>>
    /\ TruncN >= 1
    /\ count_tokens(truncInput.text) = TruncN
    /\ truncOutput[1] = truncInput.text

PrefixMonotone(text) ==
    \A i, j \in 0..Len(text) :
        i <= j => count_tokens(Prefix(text, i)) <= count_tokens(Prefix(text, j))

LongestFit(text, n) ==
    Prefix(text, CHOOSE k \in 0..Len(text) :
                    /\ count_tokens(Prefix(text, k)) <= n
                    /\ \A j \in (k + 1)..Len(text) : count_tokens(Prefix(text, j)) > n)

\* C8: for a token count non-decreasing in prefix length and a text of more
\* than N tokens (N >= 1), keep-beginning truncation returns the longest prefix
\* of at most N tokens, followed by the marker.
C8_LongestPrefixKept ==
    ( /\ TruncDone
      /\ ~truncInput.preserve_end
      /\ truncInput.max_tokens # <<>>
      /\ TruncN >= 1
      /\ PrefixMonotone(truncInput.text)
      /\ count_tokens(truncInput.text) > TruncN )
        => truncOutput[1] = LongestFit(truncInput.text, TruncN) \o MarkerAfter

WordsProduct == wordsInput.input_word_count * wordsInput.compression_ratio[1]
WordsDen == wordsInput.compression_ratio[2]

\* C9 as claimed: the target word count is max(50, round(W * r)).
C9_TargetIsRounded ==
    target_word_count # NotRun =>
        target_word_count[1] = Max(50, RoundOf(WordsProduct, WordsDen))

\* C9 as amended: the target word count is max(50, floor(W * r)), the
\* product truncated and not rounded.
C9_TargetIsTruncated ==
    target_word_count # NotRun =>
        \E f \in 0..wordsInput.input_word_count :
            /\ f * WordsDen <= WordsProduct
            /\ WordsProduct < (f + 1) * WordsDen
            /\ target_word_count[1] = (IF f > 50 THEN f ELSE 50)

\* A target above the floor of 50 was computed from a product whose
\* fractional part is more than one half.
C9_Witness ==
    /\ target_word_count # NotRun
    /\ target_word_count[1] > 50
    /\ 2 * (WordsProduct % WordsDen) > WordsDen

(***************************************************************************)
(* Specifications of the pure helpers.                                     *)
(***************************************************************************)
InitSanitize ==
    /\ sanInput \in SanTexts
    /\ sanOutput = NotRun
    /\ TruncIdle
    /\ WordsIdle
    /\ MoreIdle
    /\ LateIdle
    /\ PipeIdle

SpecSanitize == InitSanitize /\ [][Sanitize]_vars

InitTruncate ==
    /\ truncInput \in [text : TruncTexts, max_tokens : TruncLimits, preserve_end : BOOLEAN]
    /\ truncOutput = NotRun
    /\ SanIdle
    /\ WordsIdle
    /\ MoreIdle
    /\ LateIdle
    /\ PipeIdle

SpecTruncate == InitTruncate /\ [][Truncate]_vars

InitWords ==
    /\ wordsInput \in [input_word_count : 0..MaxWords, compression_ratio : Ratios]
    /\ target_word_count = NotRun
    /\ SanIdle
    /\ TruncIdle
    /\ MoreIdle
    /\ LateIdle
    /\ PipeIdle

SpecWords == InitWords /\ [][CalculateTargetWords]_vars

(***************************************************************************)
(* Claims about the pipeline, checked under Spec.                          *)
(***************************************************************************)
Terminal == {"complete", "error"}
Terminated == pc \in {"done", "error"}

\* Generation calls issued so far: MAP calls that ran their first step, and
\* the call the stream passes through.
StartedCalls == { p \in Positions : calls[p] \in {"inflight", "done", "failed", "cancelled"} }
NumStarted == Cardinality(StartedCalls) + (IF gen.status = "none" THEN 0 ELSE 1)

\* C1: in a run that is not cancelled the events are content events followed,
\* once the run has ended, by exactly one terminal event (complete or error)
\* after which nothing is sent; a run that has not ended can take a step.
C1_StreamShape ==
    cancel_at = "" =>
        /\ \A k \in 1..(Len(events) - 1) : events[k].type = "content"
        /\ Terminated =>
              /\ Len(events) >= 1
              /\ events[Len(events)].type = (IF pc = "done" THEN "complete" ELSE "error")
        /\ ~Terminated =>
              /\ \A k \in 1..Len(events) : events[k].type = "content"
              /\ (pc = "map" /\ gather = "pending") => Live # {}

\* A hierarchical run over several chunks sent content and then ended with
\* the error of a failed call.
C1_Witness ==
    /\ cancel_at = ""
    /\ pc = "error"
    /\ Len(events) = 2
    /\ events[1].type = "content"
    /\ events[2].type = "error"
    /\ Len(chunks_to_process) > 1

BatchIndex(p) == (p - 1) \div MAX_PARALLEL_CHUNKS

\* C2: at most MAX_PARALLEL_CHUNKS MAP calls are in flight, and a call of a
\* later batch exists only when every call of the earlier batches has completed.
C2_BoundedBatches ==
    /\ Cardinality(InFlight) <= MAX_PARALLEL_CHUNKS
    /\ \A p, q \in Positions :
          (BatchIndex(q) > BatchIndex(p) /\ calls[q] # "none") => calls[p] = "done"

\* A full batch is in flight while further chunks wait for the next batch.
C2_Witness ==
    /\ Cardinality(InFlight) = MAX_PARALLEL_CHUNKS
    /\ Len(chunks_to_process) > MAX_PARALLEL_CHUNKS

\* C3: after the caller cancelled during the MAP phase no MAP call is
\* scheduled or in flight, no reduce call was issued and no terminal event
\* was sent.
C3_CancelStopsBatch ==
    (pc = "cancelled" /\ cancel_at = "map") =>
        /\ Live = {}
        /\ gen.status = "none"
        /\ \A k \in 1..Len(events) : events[k].type = "content"

\* C5: an input the entry gate refuses starts no generation call and sends
\* no content; once the generator has run the stream is the one error event.
C5_GateFailsFast ==
    HasRoleMarker(request.body) =>
        /\ NumStarted = 0
        /\ Live = {}
        /\ IF pc = "init" THEN events = <<>> ELSE pc = "error" /\ events = <<ErrorEvent>>

\* A refused input that is also over the token limit, under the detailed
\* strategy, ended with the error event alone.
C5_Witness ==
    /\ HasRoleMarker(request.body)
    /\ needs_truncation(request.doc)
    /\ request.strategy = "detailed"
    /\ pc = "error"
    /\ events = <<ErrorEvent>>

\* C10 as claimed: a completed run over an input shorter than the threshold
\* did no chunking and no extraction and issued one call carrying the text.
C10_ShortInputRunsSimple ==
    (pc = "done" /\ request.doc.len < HIERARCHICAL_CHUNK_SIZE) =>
        /\ n_chunks = 0
        /\ extracted = NotRun
        /\ NumStarted = 1
        /\ gen.kind = "simple"
        /\ gen.carries = "text"

\* C10 as amended: once the strategy has been entered with a text (after any
\* token truncation) shorter than the threshold, exactly one generation call
\* is issued; under simple, hierarchical and unknown strategies it is the
\* Simple call over the first 10,000 characters of the text, with no chunking
\* and no extraction; under detailed the text is split and extracted and the
\* call carries the extracted sentences.
C10_ShortTextOneCall ==
    (target_words > 0 /\ text_len < HIERARCHICAL_CHUNK_SIZE) =>
        /\ NumStarted = 1
        /\ \A p \in Positions : calls[p] = "none"
        /\ IF request.strategy = "detailed"
           THEN /\ n_chunks >= 1
                /\ extracted # NotRun
                /\ gen.kind = "detailed"
                /\ gen.carries = "extracted"
           ELSE /\ n_chunks = 0
                /\ extracted = NotRun
                /\ gen.kind = "simple"
                /\ gen.carries = "text"
                /\ gen.chars = Min(text_len, SIMPLE_TEXT_WINDOW)

\* A completed run of an unknown strategy over a short text longer than the
\* window of the Simple prompt.
C10_Witness ==
    /\ pc = "done"
    /\ request.strategy = "unknown"
    /\ text_len < HIERARCHICAL_CHUNK_SIZE
    /\ text_len > SIMPLE_TEXT_WINDOW
    /\ gen.kind = "simple"
    /\ gen.status = "done"


\* The run went through the MAP phase of the Hierarchical strategy.
MapRun == chunks_to_process # <<>>
NumProcessed == Len(chunks_to_process)

C12_SumWithinRounding ==
    MapRun => NumProcessed * words_per_chunk < target_words + NumProcessed

\* C12 as amended: every processed chunk gets the target divided by the
\* number of processed chunks and rounded down, and at least 50 words; the
\* sum stays at or below the larger of the target and 50 words per chunk.
C12_SumWithinFloor ==
    MapRun =>
        /\ words_per_chunk >= 50
        /\ IF words_per_chunk > 50
           THEN /\ NumProcessed * words_per_chunk <= target_words
                /\ target_words < NumProcessed * (words_per_chunk + 1)
           ELSE target_words < NumProcessed * 51
        /\ NumProcessed * words_per_chunk <= Max(target_words, 50 * NumProcessed)

\* Several chunks each got the floor of 50 words, together more than the
\* target of the run allows.
C12_Witness ==
    /\ MapRun
    /\ NumProcessed >= 2
    /\ words_per_chunk = 50
    /\ NumProcessed * words_per_chunk >= target_words + NumProcessed

\* The events that carry generated text (the advisory is not one of them).
Generated == SelectSeq(events, LAMBDA e : e.type = "content" /\ e.content # "advisory")

\* C13: a Hierarchical run over n >= 1 processed chunks that completed sent
\* each chunk to the generation capability once; for n > 1 it issued one
\* reduce call over the n summaries (n + 1 calls), for n = 1 no reduce call,
\* the single summary being the output (1 call).
C13_MapThenReduce ==
    (pc = "done" /\ MapRun) =>
        /\ \A p \in Positions : calls[p] = (IF p <= NumProcessed THEN "done" ELSE "none")
        /\ Len(chunk_summaries) = NumProcessed
        /\ \A p \in 1..NumProcessed : chunk_summaries[p] = results[p]
        /\ IF NumProcessed > 1
           THEN /\ gen.kind = "reduce"
                /\ gen.carries = "summaries"
                /\ gen.status = "done"
                /\ NumStarted = NumProcessed + 1
           ELSE /\ gen = NoGen
                /\ NumStarted = 1
                /\ Generated = <<ContentEvent(chunk_summaries[1])>>

\* A run of two batches completed through its reduce call.
C13_Witness ==
    /\ pc = "done"
    /\ NumProcessed > MAX_PARALLEL_CHUNKS
    /\ gen.kind = "reduce"
    /\ NumStarted = NumProcessed + 1


\* The importance score rank_chunks_by_importance gave to chunk k.
ScoreOf(k) == (CHOOSE r \in { ranked[p] : p \in 1..Len(ranked) } : r[1] = k)[2]
Retained == { chunks_to_process[p] : p \in 1..NumProcessed }

\* C14: with filtering enabled and n > 3 chunks exactly max(2, floor(0.7 n))
\* chunks, no more than n, are retained and no dropped chunk scores strictly
\* higher than a retained one; otherwise every chunk is processed.
C14_RelevanceGating ==
    MapRun =>
        IF request.USE_RELEVANCE_FILTERING /\ n_chunks > 3
        THEN /\ NumProcessed = (IF (7 * n_chunks) \div 10 > 2 THEN (7 * n_chunks) \div 10 ELSE 2)
             /\ NumProcessed <= n_chunks
             /\ Cardinality(Retained) = NumProcessed
             /\ Retained \subseteq 1..n_chunks
             /\ \A k \in Retained : \A j \in (1..n_chunks) \ Retained : ScoreOf(j) <= ScoreOf(k)
        ELSE chunks_to_process = [p \in 1..n_chunks |-> p]

\* Filtering dropped a chunk of a lower score than a chunk it retained.
C14_Witness ==
    /\ MapRun
    /\ request.USE_RELEVANCE_FILTERING
    /\ n_chunks > 4
    /\ NumProcessed < n_chunks
    /\ \E k \in Retained : \E j \in (1..n_chunks) \ Retained : ScoreOf(j) < ScoreOf(k)


\* The token check of summarize_stream has been made.
TokenChecked == pc = "advised" \/ target_words > 0
OverSafeLimit == DocTokens(request.doc) > (TOKEN_LIMIT * 9) \div 10
Advisories == SelectSeq(events, LAMBDA e : e = ContentEvent("advisory"))

\* C15: a text over the safe limit (90% of the hard limit) is cut to its
\* longest prefix within the limit, followed by the marker, and one advisory
\* is sent as the first event, before any generation call is started; a text
\* at or below the limit is passed on unchanged, without advisory.
C15_AdvisoryBeforeGeneration ==
    /\ pc \in {"init", "advised"} => (NumStarted = 0 /\ Live = {})
    /\ TokenChecked =>
          IF OverSafeLimit
          THEN LET kept == text_len - Len(MarkerAfter)
                   d == request.doc.density
               IN  /\ kept >= 0
                   /\ kept < request.doc.len
                   /\ (kept * d[1]) \div d[2] <= (TOKEN_LIMIT * 9) \div 10
                   /\ ((kept + 1) * d[1]) \div d[2] > (TOKEN_LIMIT * 9) \div 10
                   /\ Len(Advisories) = 1
                   /\ events[1] = ContentEvent("advisory")
                   /\ pc = "advised" => events = <<ContentEvent("advisory")>>
          ELSE /\ text_len = request.doc.len
               /\ Advisories = <<>>

\* A run over a text above the safe limit and below the hard limit sent the
\* advisory, then generated text, and completed.
C15_Witness ==
    /\ OverSafeLimit
    /\ DocTokens(request.doc) < TOKEN_LIMIT
    /\ pc = "done"
    /\ Len(events) >= 3
    /\ events[1] = ContentEvent("advisory")
    /\ events[2] = ContentEvent("x")


FailedCalls == { p \in Positions : calls[p] = "failed" }
AnyFailed == FailedCalls # {} \/ gen.status = "failed"
Errors == SelectSeq(events, LAMBDA e : e.type = "error")
IsPrefix(s, t) == Len(s) <= Len(t) /\ SubSeq(t, 1, Len(s)) = s

\* While the caller stays connected, a failed generation call leaves the run
\* waiting to pick the exception up or ended by one error event, the last
\* event; no call of a later batch and no reduce call exists.
FailureEndsRun ==
    (AnyFailed /\ cancel_at = "") =>
        /\ pc \in {"map", "error"}
        /\ pc = "map" => (gather = "exception" /\ Errors = <<>>)
        /\ pc = "error" => (Len(Errors) = 1 /\ events[Len(events)] = ErrorEvent)
        /\ FailedCalls # {} =>
              /\ gen.status = "none"
              /\ \A p \in FailedCalls : \A q \in Positions :
                    BatchIndex(q) > BatchIndex(p) => calls[q] = "none"

\* A step keeps the events already sent and the failed calls failed, and
\* after a failure it creates no call and starts no streamed call.
FailureIsFinal ==
    /\ IsPrefix(events, events')
    /\ \A p \in FailedCalls : calls'[p] = "failed"
    /\ gen.status = "failed" => gen' = gen
    /\ AnyFailed =>
          /\ \A q \in Positions : calls[q] = "none" => calls'[q] = "none"
          /\ gen.status = "none" => gen'.status = "none"

\* C16: a failed generation call (Simple, MAP or reduce) ends the stream with
\* exactly one error event, the last one; the content sent before remains;
\* the failed call is not issued again, and no call of a later batch and no
\* reduce call is started after the failure.
C16_FailureIsTerminal == []FailureEndsRun /\ [][FailureIsFinal]_vars

\* A call of the second batch failed after the advisory was sent, and the
\* stream ended with the error event.
C16_Witness ==
    /\ cancel_at = ""
    /\ pc = "error"
    /\ batch_start > 0
    /\ \E p \in FailedCalls : p > batch_start
    /\ events = <<ContentEvent("advisory"), ErrorEvent>>


(***************************************************************************)
(* chunk_by_tokens and filter_by_threshold on their own.                   *)
(***************************************************************************)
InitChunk ==
    /\ chunkInput \in ChunkInputs
    /\ chunkOutput = NotRun
    /\ FilterIdle
    /\ LateIdle
    /\ SanIdle
    /\ TruncIdle
    /\ WordsIdle
    /\ PipeIdle

SpecChunk == InitChunk /\ [][ChunkByTokens]_vars

InitFilter ==
    /\ filterInput \in FilterInputs
    /\ filterOutput = NotRun
    /\ ChunkIdle
    /\ LateIdle
    /\ SanIdle
    /\ TruncIdle
    /\ WordsIdle
    /\ PipeIdle

SpecFilter == InitFilter /\ [][FilterByThreshold]_vars

ChunkDone == chunkOutput # NotRun
ChunkOut == chunkOutput[1]

\* C17: chunk_by_tokens raises its size error exactly on the texts of more
\* than 200,000 characters, and before the text is encoded; a shorter
\* non-empty text is encoded, and when the encoder takes it the list of
\* chunks returned is not empty.
C17_CeilingGate ==
    ChunkDone =>
        /\ (ChunkOut.raised = "too_large") <=> (chunkInput.text.len > 200000)
        /\ ChunkOut.raised = "too_large" => (~ChunkOut.encoded /\ ChunkOut.loop.chunks = <<>>)
        /\ (chunkInput.text.len >= 1 /\ chunkInput.text.len <= 200000) =>
              /\ ChunkOut.encoded
              /\ ~chunkInput.text.refused =>
                    (ChunkOut.raised = "none" /\ ChunkOut.loop.chunks # <<>>)

\* A text of exactly 200,000 characters was split into several chunks.
C17_Witness ==
    /\ ChunkDone
    /\ chunkInput.text.len = 200000
    /\ ChunkOut.raised = "none"
    /\ Len(ChunkOut.loop.chunks) > 1

\* C18: for chunk_size >= 1 and overlap >= 0 a call that reaches the loop
\* uses chunk_size / 2 as overlap when overlap >= chunk_size, enters the loop
\* body at most total_tokens / (chunk_size - overlap) + 5 times, is never
\* stopped by that limit, and returns no more chunks than that.
C18_ChunkingTerminates ==
    (ChunkDone /\ ChunkOut.raised = "none" /\ chunkInput.text.tokens > chunkInput.chunk_size) =>
        LET cs == chunkInput.chunk_size
            ov == IF chunkInput.overlap >= cs THEN cs \div 2 ELSE chunkInput.overlap
            bound == chunkInput.text.tokens \div (cs - ov) + 5
        IN  /\ ChunkOut.overlap = ov
            /\ ov < cs
            /\ ChunkOut.loop.iterations <= bound
            /\ ~ChunkOut.loop.broke
            /\ Len(ChunkOut.loop.chunks) <= bound
            /\ Len(ChunkOut.loop.chunks) >= 1

\* An overlap above the chunk size was clamped and the text split into
\* several chunks.
C18_Witness ==
    /\ ChunkDone
    /\ chunkInput.overlap > chunkInput.chunk_size
    /\ chunkInput.chunk_size >= 2
    /\ ChunkOut.raised = "none"
    /\ Len(ChunkOut.loop.chunks) >= 3

FilterDone == filterOutput # NotRun
FilterOut == filterOutput[1]
FilterN == Len(filterInput.scores)
AllZero == \A k \in 1..FilterN : filterInput.scores[k] = 0

\* C19: for a non-empty list of chunks filter_by_threshold never returns an
\* empty list; when every score is zero it returns the list unchanged;
\* otherwise threshold 0 returns every chunk and a threshold above 1 returns
\* one chunk, the first of the highest score.
C19_FilterNeverEmpty ==
    (FilterDone /\ FilterN >= 1) =>
        /\ FilterOut # <<>>
        /\ filterInput.threshold[1] = 0 =>
              (Len(FilterOut) = FilterN /\ { FilterOut[p] : p \in 1..FilterN } = 1..FilterN)
        /\ AllZero => FilterOut = [k \in 1..FilterN |-> k]
        /\ (~AllZero /\ filterInput.threshold[1] > filterInput.threshold[2]) =>
              /\ Len(FilterOut) = 1
              /\ \A j \in 1..FilterN : filterInput.scores[j] <= filterInput.scores[FilterOut[1]]
              /\ \A j \in 1..(FilterOut[1] - 1) :
                    filterInput.scores[j] < filterInput.scores[FilterOut[1]]

\* Threshold 1.01 over chunks of different scores kept the one highest chunk,
\* which is not the first of the list.
C19_Witness ==
    /\ FilterDone
    /\ FilterN >= 2
    /\ filterInput.threshold = <<101, 100>>
    /\ FilterOut = <<FilterN>>


Extraction == extracted[1]
Labels == SelectSeq(Extraction.all_sentences, LAMBDA l : l.kind = "label")
SentencesOf(k) ==
    Len(SelectSeq(Extraction.all_sentences, LAMBDA l : l.kind = "sentence" /\ l.section = k))

\* C20: a Detailed run extracts from every chunk the splitter returned, none
\* filtered out; the chunks that yield sentences give one block each, labelled
\* with the chunk's own section number, in ascending order; and one
\* generation call, over the extracted content, is issued, whatever the
\* number of chunks.
C20_DetailedExtractsAll ==
    /\ (request.strategy = "detailed" /\ target_words > 0) => extracted # NotRun
    /\ extracted # NotRun =>
          /\ request.strategy = "detailed"
          /\ n_chunks >= 0
          /\ Len(Extraction.sentences) = n_chunks
          /\ ranked = <<>> /\ chunks_to_process = <<>>
          /\ \A p \in 1..Len(Labels) : Labels[p].section \in 1..n_chunks
          /\ \A p, q \in 1..Len(Labels) : p < q => Labels[p].section < Labels[q].section
          /\ { Labels[p].section : p \in 1..Len(Labels) }
                = { k \in 1..n_chunks : Extraction.sentences[k] > 0 }
          /\ \A k \in 1..n_chunks : SentencesOf(k) = Extraction.sentences[k]
          /\ \A i \in 1..Len(Extraction.all_sentences) :
                Extraction.all_sentences[i].kind = "sentence" =>
                    /\ i > 1
                    /\ Extraction.all_sentences[i - 1].kind \in {"label", "sentence"}
                    /\ Extraction.all_sentences[i - 1].section = Extraction.all_sentences[i].section
          /\ \A p \in Positions : calls[p] = "none"
          /\ NumStarted = 1
          /\ gen.kind = "detailed"
          /\ gen.carries = "extracted"

\* A completed Detailed run over several chunks whose first chunk yielded no
\* sentence: the first block is labelled with a later section.
C20_Witness ==
    /\ pc = "done"
    /\ extracted # NotRun
    /\ n_chunks >= 3
    /\ Extraction.sentences[1] = 0
    /\ Len(Labels) >= 2
    /\ Labels[1].section = 2


(***************************************************************************)
(* SummarizerService.summarize   (services/summarizer.py)                  *)
(* The non-streaming variant drains summarize_stream into a list and joins *)
(* it.  The stream is given by the fragments it yields and by whether it   *)
(* ends or raises after the last of them.                                  *)
(***************************************************************************)
MaxFragLen == 2
MaxStream == 3

FragmentTexts == UNION { [1..n -> {"a", "b"}] : n \in 0..MaxFragLen }

Streams ==
    [ fragments : UNION { [1..n -> FragmentTexts] : n \in 0..MaxStream },
      raises : BOOLEAN ]

\* "sep".join(chunks) with a one-character separator
RECURSIVE join_spaced(_)
join_spaced(chunks) ==
    IF chunks = <<>> THEN <<>>
    ELSE IF Len(chunks) = 1 THEN Head(chunks)
    ELSE Head(chunks) \o <<" ">> \o join_spaced(Tail(chunks))

\* "".join(chunks)
join(chunks) == Concat(chunks)

SummarizeStarted == [chunks |-> <<>>, position |-> 0, status |-> "running", value |-> <<>>]

Summarizing == sumState # NotRun /\ sumState[1].status = "running"

\* async for chunk in self.summarize_stream(text): chunks.append(chunk)
SummarizeAppend ==
    /\ Summarizing
    /\ sumState[1].position < Len(sumInput.fragments)
    /\ sumState' = <<[sumState[1] EXCEPT
                        !.chunks = Append(@, sumInput.fragments[sumState[1].position + 1]),
                        !.position = @ + 1]>>
    /\ UNCHANGED <<sumInput, splitInput, splitOutput, extractInput, extractOutput,
                   rankInput, rankOutput>>
    /\ UNCHANGED <<sanInput, sanOutput, truncInput, truncOutput, wordsInput,
                   target_word_count, moreVars, pipeVars>>

\* the stream is exhausted: return "".join(chunks)
SummarizeReturn ==
    /\ Summarizing
    /\ sumState[1].position = Len(sumInput.fragments)
    /\ ~sumInput.raises
    /\ sumState' = <<[sumState[1] EXCEPT !.status = "returned",
                                         !.value = join(sumState[1].chunks)]>>
    /\ UNCHANGED <<sumInput, splitInput, splitOutput, extractInput, extractOutput,
                   rankInput, rankOutput>>
    /\ UNCHANGED <<sanInput, sanOutput, truncInput, truncOutput, wordsInput,
                   target_word_count, moreVars, pipeVars>>

\* the stream raises: nothing in summarize catches it
SummarizeRaise ==
    /\ Summarizing
    /\ sumState[1].position = Len(sumInput.fragments)
    /\ sumInput.raises
    /\ sumState' = <<[sumState[1] EXCEPT !.status = "raised"]>>
    /\ UNCHANGED <<sumInput, splitInput, splitOutput, extractInput, extractOutput,
                   rankInput, rankOutput>>
    /\ UNCHANGED <<sanInput, sanOutput, truncInput, truncOutput, wordsInput,
                   target_word_count, moreVars, pipeVars>>

InitSummarize ==
    /\ sumInput \in Streams
    /\ sumState = <<SummarizeStarted>>
    /\ SplitIdle
    /\ ExtractIdle
    /\ RankIdle
    /\ SanIdle
    /\ TruncIdle
    /\ WordsIdle
    /\ MoreIdle
    /\ PipeIdle

NextSummarize == SummarizeAppend \/ SummarizeReturn \/ SummarizeRaise

SpecSummarize == InitSummarize /\ [][NextSummarize]_vars

RECURSIVE FragOffset(_, _)
FragOffset(frags, k) == IF k <= 1 THEN 0 ELSE FragOffset(frags, k - 1) + Len(frags[k - 1])

\* value holds fragment k at the offset left by the fragments before it
HoldsFragments(value, frags) ==
    /\ Len(value) = FragOffset(frags, Len(frags) + 1)
    /\ \A k \in 1..Len(frags) : \A i \in 1..Len(frags[k]) :
           value[FragOffset(frags, k) + i] = frags[k][i]

\* C21: summarize returns exactly the fragments of summarize_stream, joined in the
\* order of emission with nothing between them, and it returns only when the stream
\* ended without raising: when the stream raises, summarize raises, once the
\* fragments before the failure have been consumed.
C21_SummarizeIsJoinedStream ==
    sumState # NotRun =>
        /\ sumState[1].status = "returned" =>
               /\ ~sumInput.raises
               /\ HoldsFragments(sumState[1].value, sumInput.fragments)
        /\ sumState[1].status = "raised" =>
               /\ sumInput.raises
               /\ sumState[1].position = Len(sumInput.fragments)
        /\ sumState[1].status = "running" =>
               sumState[1].position <= Len(sumInput.fragments)

C21_Witness ==
    /\ sumState # NotRun
    /\ sumState[1].status = "returned"
    /\ Len(sumInput.fragments) = 3
    /\ \A k \in 1..3 : sumInput.fragments[k] # <<>>
    /\ sumInput.fragments[1] # sumInput.fragments[2]


(***************************************************************************)
(* TextProcessor.preprocess and split_into_chunks                          *)
(* (services/text_processor.py).  A text is a sequence of characters: a    *)
(* letter, the two kinds of whitespace that matter (a space, and any other *)
(* whitespace character, here a newline), and an unpaired surrogate, the   *)
(* one kind of character that encode("utf-8", "ignore") drops.             *)
(***************************************************************************)
MaxTextLen == 3
MaxSplitSize == 3
MaxSplitOverlap == 3
MaxSplitChunks == 2

None == -1
CHUNK_OVERLAP == 1000

LoneSurrogate == "U+D800"
Whitespace == {" ", "\n"}
SplitAlphabet == {"a", " ", "\n", LoneSurrogate}

\* re.sub(r"\s+", " ", text)
RECURSIVE collapse_whitespace(_)
collapse_whitespace(text) ==
    IF text = <<>> THEN <<>>
    ELSE IF Head(text) \in Whitespace
         THEN IF Len(text) > 1 /\ text[2] \in Whitespace
              THEN collapse_whitespace(Tail(text))
              ELSE <<" ">> \o collapse_whitespace(Tail(text))
         ELSE <<Head(text)>> \o collapse_whitespace(Tail(text))

\* text.encode("utf-8", "ignore").decode("utf-8")
encode_ignore(text) == SelectSeq(text, LAMBDA c : c # LoneSurrogate)

\* text.strip()
RECURSIVE lstrip(_)
lstrip(text) ==
    IF text # <<>> /\ Head(text) \in Whitespace THEN lstrip(Tail(text)) ELSE text

RECURSIVE rstrip(_)
rstrip(text) ==
    IF text # <<>> /\ text[Len(text)] \in Whitespace
    THEN rstrip(SubSeq(text, 1, Len(text) - 1))
    ELSE text

strip(text) == rstrip(lstrip(text))

\* preprocess without the whitespace substitution
preprocess_keeps_runs(text) == strip(encode_ignore(text))

preprocess(text) == strip(encode_ignore(collapse_whitespace(text)))

\* max_size of split_into_chunks when the caller gives none
DefaultMaxSize(strategy) ==
    IF strategy = "detailed" THEN DETAILED_CHUNK_SIZE ELSE HIERARCHICAL_CHUNK_SIZE

\* if overlap >= max_size: overlap = max_size // 2
SplitterOverlap(max_size, overlap) ==
    IF overlap >= max_size THEN max_size \div 2 ELSE overlap

\* RecursiveCharacterTextSplitter.split_text: nothing for an empty text and the
\* text itself when it fits chunk_size; otherwise pieces of the text, stripped,
\* each beginning and ending later than the one before.  Which pieces is the
\* library's choice and is left open.
Stripped(text) == text # <<>> /\ text[1] \notin Whitespace /\ text[Len(text)] \notin Whitespace

Windows(text) ==
    { w \in (1..Len(text)) \X (1..Len(text)) :
          w[1] <= w[2] /\ Stripped(SubSeq(text, w[1], w[2])) }

split_text(text, chunk_size, chunk_overlap) ==
    IF text = <<>> THEN { <<>> }
    ELSE IF Len(text) <= chunk_size THEN { <<text>> }
    ELSE { [k \in 1..Len(ws) |-> SubSeq(text, ws[k][1], ws[k][2])] :
             ws \in { v \in UNION { [1..n -> Windows(text)] : n \in 1..MaxSplitChunks } :
                        \A k \in 1..(Len(v) - 1) :
                            v[k][1] < v[k + 1][1] /\ v[k][2] < v[k + 1][2] } }

SplitInputs ==
    [ text : UNION { [1..n -> SplitAlphabet] : n \in 0..MaxTextLen },
      max_size : (1..MaxSplitSize) \cup {None},
      overlap : (0..MaxSplitOverlap) \cup {None},
      strategy : {"hierarchical", "detailed"} ]

SplitIntoChunks ==
    /\ splitOutput = NotRun
    /\ LET max_size == IF splitInput.max_size = None
                       THEN DefaultMaxSize(splitInput.strategy)
                       ELSE splitInput.max_size
           overlap == SplitterOverlap(max_size,
                                      IF splitInput.overlap = None THEN CHUNK_OVERLAP
                                                                   ELSE splitInput.overlap)
           text == preprocess(splitInput.text)
       IN  \E chunks \in split_text(text, max_size, overlap) :
               splitOutput' = <<[max_size |-> max_size, overlap |-> overlap,
                                 text |-> text, chunks |-> chunks]>>
    /\ UNCHANGED <<sumInput, sumState, splitInput, extractInput, extractOutput,
                   rankInput, rankOutput>>
    /\ UNCHANGED <<sanInput, sanOutput, truncInput, truncOutput, wordsInput,
                   target_word_count, moreVars, pipeVars>>

InitSplit ==
    /\ splitInput \in SplitInputs
    /\ splitOutput = NotRun
    /\ SummarizeIdle
    /\ ExtractIdle
    /\ RankIdle
    /\ SanIdle
    /\ TruncIdle
    /\ WordsIdle
    /\ MoreIdle
    /\ PipeIdle

SpecSplit == InitSplit /\ [][SplitIntoChunks]_vars

SplitDone == splitOutput # NotRun
SplitOut == splitOutput[1]

\* C22: the overlap handed to the splitter is at most half of max_size, for every
\* requested max_size and overlap.
C22_OverlapAtMostHalf ==
    SplitDone => 2 * SplitOut.overlap <= SplitOut.max_size


VisibleChars(text) == SelectSeq(text, LAMBDA c : c \notin Whitespace /\ c # LoneSurrogate)

\* nothing for preprocess to change: single spaces between letters only
AlreadyNormal(text) ==
    /\ \A i \in 1..Len(text) : text[i] # "\n" /\ text[i] # LoneSurrogate
    /\ text # <<>> => text[1] # " " /\ text[Len(text)] # " "
    /\ \A i \in 1..(Len(text) - 1) : ~(text[i] = " " /\ text[i + 1] = " ")

\* C26 as stated: the chunks put together give back the text that was handed in
\* (stated for the results of at most one chunk, where no region is shared).
C26_RoundTripOriginal ==
    (SplitDone /\ Len(SplitOut.chunks) <= 1) =>
        Concat(SplitOut.chunks) = splitInput.text

\* C26: what is cut into chunks is the normalised text, not the text handed in.
\* A text whose normalised form is empty gives no chunk; one whose normalised form
\* fits max_size gives exactly one chunk, which holds the characters of the input
\* other than whitespace and undecodable ones in their order, has no whitespace
\* but spaces and none at either end, and equals the input exactly when the input
\* had nothing to normalise.
C26_RoundTripNormalised ==
    SplitDone =>
        LET text == splitInput.text
            out == SplitOut
        IN  /\ VisibleChars(text) = <<>> => out.chunks = <<>>
            /\ (VisibleChars(text) # <<>> /\ Len(out.text) <= out.max_size) =>
                   /\ Len(out.chunks) = 1
                   /\ VisibleChars(out.chunks[1]) = VisibleChars(text)
                   /\ \A i \in 1..Len(out.chunks[1]) :
                          out.chunks[1][i] \notin {"\n", LoneSurrogate}
                   /\ Stripped(out.chunks[1])
                   /\ Len(out.chunks[1]) <= Len(text)
                   /\ (out.chunks[1] = text) <=> AlreadyNormal(text)
            /\ AlreadyNormal(text) => out.text = text

C26_Witness ==
    /\ SplitDone
    /\ splitInput.text = <<"a", "\n", "a">>
    /\ SplitOut.chunks = << <<"a", " ", "a">> >>


(***************************************************************************)
(* ExtractiveAnalyzer.extract_sentences and _fallback_extraction           *)
(* (services/extractive_analyzer.py).  A text is given by the word counts  *)
(* of its sentences, in document order; a result is the list of the        *)
(* positions of the sentences returned.                                    *)
(***************************************************************************)
MaxSourceSentences == 4
MaxCount == 3

WordCounts == {3, 20, 40}

\* length_score, in units of 1/1500
LengthScore(word_count) ==
    IF word_count < 30 THEN Min(word_count * 50, 1500)
    ELSE Max(1500 - (word_count - 30) * 30, 750)

\* position_score of sentence i (counted from 0) of n, in units of 1/(10 n)
PositionScore(i, n) == 10 * n - 3 * i

\* score of the sentence at position p (counted from 1)
FallbackScore(words, p) == LengthScore(words[p]) * PositionScore(p - 1, Len(words))

\* place of sentence p after scored_sentences.sort(reverse=True, key=score): the
\* sort is stable, so equal scores keep their document order
FallbackPlace(words, p) ==
    1 + Cardinality({ q \in 1..Len(words) :
                        \/ FallbackScore(words, q) > FallbackScore(words, p)
                        \/ FallbackScore(words, q) = FallbackScore(words, p) /\ q < p })

\* scored_sentences[:count] after the sort
TopScored(words, count) ==
    [ place \in 1..Min(Max(count, 0), Len(words)) |->
        CHOOSE p \in 1..Len(words) : FallbackPlace(words, p) = place ]

\* a fallback that first drops the sentences of fewer than five words
fallback_extraction_drops_short(words, count) ==
    LET kept == SelectSeq([p \in 1..Len(words) |-> p], LAMBDA p : words[p] >= 5)
    IN  IF Len(kept) <= count THEN kept
        ELSE SubSeq(kept, 1, Max(count, 0))

fallback_extraction(words, count) ==
    IF Len(words) <= count THEN [p \in 1..Len(words) |-> p]
    ELSE TopScored(words, count)

\* self.summarizer(parser.document, sentence_count): the best-rated sentences,
\* as many as asked for if there are that many, in the order of the document;
\* which ones is the algorithm's choice
Ascending(positions) ==
    \A k \in 1..(Len(positions) - 1) : positions[k] < positions[k + 1]

PrimaryExtractions(words, count) ==
    { sel \in [1..Min(count, Len(words)) -> 1..Len(words)] : Ascending(sel) }

ExtractInputs ==
    [ words : UNION { [1..n -> WordCounts] : n \in 0..MaxSourceSentences },
      count : 0..MaxCount,
      primary_fails : BOOLEAN ]

ExtractSentences ==
    /\ extractOutput = NotRun
    /\ \E sentences \in
            IF extractInput.words = <<>> THEN { <<>> }
            ELSE IF extractInput.primary_fails
                 THEN { fallback_extraction(extractInput.words, extractInput.count) }
                 ELSE PrimaryExtractions(extractInput.words, extractInput.count) :
           extractOutput' = <<sentences>>
    /\ UNCHANGED <<sumInput, sumState, splitInput, splitOutput, extractInput,
                   rankInput, rankOutput>>
    /\ UNCHANGED <<sanInput, sanOutput, truncInput, truncOutput, wordsInput,
                   target_word_count, moreVars, pipeVars>>

InitExtract ==
    /\ extractInput \in ExtractInputs
    /\ extractOutput = NotRun
    /\ SummarizeIdle
    /\ SplitIdle
    /\ RankIdle
    /\ SanIdle
    /\ TruncIdle
    /\ WordsIdle
    /\ MoreIdle
    /\ PipeIdle

SpecExtract == InitExtract /\ [][ExtractSentences]_vars

ExtractDone == extractOutput # NotRun
ExtractOut == extractOutput[1]
ByFallback == extractInput.words # <<>> /\ extractInput.primary_fails

\* C23: the fallback, asked for count sentences of a text of s sentences, returns
\* exactly min(count, s) sentences, each one a sentence of the source and no
\* sentence twice.
C23_FallbackReturnsMin ==
    (ExtractDone /\ ByFallback) =>
        /\ Len(ExtractOut) = Min(extractInput.count, Len(extractInput.words))
        /\ \A k \in 1..Len(ExtractOut) : ExtractOut[k] \in 1..Len(extractInput.words)
        /\ \A k, l \in 1..Len(ExtractOut) : k # l => ExtractOut[k] # ExtractOut[l]

C23_Witness ==
    /\ ExtractDone
    /\ ByFallback
    /\ Len(extractInput.words) = 4
    /\ extractInput.count = 2
    /\ Len(ExtractOut) = 2

\* C24: extract_sentences returns the sentences it selected in the order of the
\* document, on every path.
C24_DocumentOrder ==
    ExtractDone => Ascending(ExtractOut)


(***************************************************************************)
(* RelevanceDetector.rank_chunks_by_importance with the analysis of each   *)
(* chunk   (services/relevance_detector.py, extractive_analyzer.py).       *)
(* A chunk is given by the ratings of its sentences, in tenths, and by     *)
(* whether the rating algorithm fails on it.  A chunk score is kept in     *)
(* sixtieths of a tenth, so that the mean of one to six ratings is exact.  *)
(***************************************************************************)
MaxRankChunks == 3

NUM_SECTIONS == 5
ScoreUnit == 60

SentenceRatings ==
    { <<>>, <<1>>, <<2, 1>>, <<1, 2, 2>>, <<2, 2, 2, 2, 2, 1>>, <<1, 1, 3, 1, 1, 1>> }

RankChunks == [ ratings : SentenceRatings, fails : BOOLEAN ]

RECURSIVE SumSeq(_)
SumSeq(seq) == IF seq = <<>> THEN 0 ELSE Head(seq) + SumSeq(Tail(seq))

\* place of sentence p in sorted(ratings.items(), key=rating, reverse=True)
RatingPlace(ratings, p) ==
    1 + Cardinality({ q \in 1..Len(ratings) :
                        \/ ratings[q] > ratings[p]
                        \/ ratings[q] = ratings[p] /\ q < p })

\* the scores of the items analyze_content_importance returns: the num_sections
\* best ratings; 1.0, 0.9, ... for the sentences of the fallback when rating fails
analyze_content_importance(chunk, num_sections) ==
    LET n == Min(num_sections, Len(chunk.ratings))
    IN  IF chunk.fails
        THEN [ place \in 1..n |-> 10 - (place - 1) ]
        ELSE [ place \in 1..n |->
                 chunk.ratings[CHOOSE p \in 1..Len(chunk.ratings) :
                                   RatingPlace(chunk.ratings, p) = place] ]

\* avg_score taken over every sentence of the chunk
avg_score_of_all(chunk) ==
    IF chunk.ratings = <<>> THEN 0
    ELSE (SumSeq(chunk.ratings) * ScoreUnit) \div Len(chunk.ratings)

\* avg_score = sum(item["score"] for item in analysis) / len(analysis), or 0.0
avg_score(chunk) ==
    LET analysis == analyze_content_importance(chunk, NUM_SECTIONS)
    IN  IF analysis = <<>> THEN 0
        ELSE (SumSeq(analysis) * ScoreUnit) \div Len(analysis)

RankInputs == UNION { [1..n -> RankChunks] : n \in 0..MaxRankChunks }

RankChunksByImportance ==
    /\ rankOutput = NotRun
    /\ LET by_score == rank_chunks_by_importance([k \in 1..Len(rankInput) |->
                                                     avg_score(rankInput[k])])
       IN  rankOutput' = <<[p \in 1..Len(by_score) |->
                              <<by_score[p][1], rankInput[by_score[p][1]], by_score[p][2]>>]>>
    /\ UNCHANGED <<sumInput, sumState, splitInput, splitOutput, extractInput,
                   extractOutput, rankInput>>
    /\ UNCHANGED <<sanInput, sanOutput, truncInput, truncOutput, wordsInput,
                   target_word_count, moreVars, pipeVars>>

InitRank ==
    /\ rankInput \in RankInputs
    /\ rankOutput = NotRun
    /\ SummarizeIdle
    /\ SplitIdle
    /\ ExtractIdle
    /\ SanIdle
    /\ TruncIdle
    /\ WordsIdle
    /\ MoreIdle
    /\ PipeIdle

\* rankInput = <<>> both before a call and for the call on an empty list
SpecRank == InitRank /\ [][RankChunksByImportance]_vars

RankDone == rankOutput # NotRun
RankOut == rankOutput[1]

RECURSIVE SumOver(_, _)
SumOver(ratings, positions) ==
    IF positions = {} THEN 0
    ELSE LET p == CHOOSE q \in positions : TRUE
         IN  ratings[p] + SumOver(ratings, positions \ {p})

\* the largest sum that m of the ratings can reach
BestSum(ratings, m) ==
    LET sums == { SumOver(ratings, ps) :
                    ps \in { qs \in SUBSET (1..Len(ratings)) : Cardinality(qs) = m } }
    IN  CHOOSE best \in sums : \A other \in sums : other <= best

\* C25: the ranking holds one triple per input chunk, each with the chunk found
\* at its original index, ordered by score from high to low; a chunk's score is
\* the mean rating of its five best-rated sentences (of all of them when it has
\* fewer) and 0 when it has none; reading the triples by original index gives the
\* input back.
C25_RankingIsPermutation ==
    RankDone =>
        /\ Len(RankOut) = Len(rankInput)
        /\ \A k \in 1..Len(rankInput) : \E p \in 1..Len(RankOut) : RankOut[p][1] = k
        /\ \A p \in 1..Len(RankOut) :
               /\ RankOut[p][1] \in 1..Len(rankInput)
               /\ RankOut[p][2] = rankInput[RankOut[p][1]]
               /\ LET chunk == RankOut[p][2]
                      m == Min(5, Len(chunk.ratings))
                  IN  /\ m = 0 => RankOut[p][3] = 0
                      /\ (m > 0 /\ ~chunk.fails) =>
                             RankOut[p][3] * m = ScoreUnit * BestSum(chunk.ratings, m)
        /\ \A p \in 1..(Len(RankOut) - 1) : RankOut[p][3] >= RankOut[p + 1][3]

C25_Witness ==
    /\ RankDone
    /\ Len(RankOut) = 3
    /\ RankOut[1][1] = 3
    /\ RankOut[1][2].ratings = <<1, 1, 3, 1, 1, 1>>
    /\ ~RankOut[1][2].fails
    /\ RankOut[1][3] > RankOut[2][3]


\* C28: for a text that passes the gate and the encoder and has more tokens than
\* chunk_size, the chunks are windows of tokens, each of 1 to chunk_size tokens;
\* the first starts at token 0, the last ends at the last token, every window
\* starts the clamped overlap before the end of the one before it and ends after
\* it, so that every token lies in a window; the iteration limit does not end
\* the loop.
C28_WindowsCoverText ==
    (ChunkDone /\ ChunkOut.raised = "none" /\ chunkInput.text.tokens > chunkInput.chunk_size) =>
        LET cs == chunkInput.chunk_size
            total == chunkInput.text.tokens
            ov == IF chunkInput.overlap >= cs THEN cs \div 2 ELSE chunkInput.overlap
            w == ChunkOut.loop.chunks
        IN  /\ Len(w) >= 2
            /\ w[1][1] = 0
            /\ w[Len(w)][2] = total
            /\ \A k \in 1..Len(w) : w[k][1] < w[k][2] /\ w[k][2] - w[k][1] <= cs
            /\ \A k \in 1..(Len(w) - 1) :
                   /\ w[k + 1][1] = w[k][2] - ov
                   /\ w[k + 1][2] > w[k][2]
            /\ \A t \in 0..(total - 1) : \E k \in 1..Len(w) : w[k][1] <= t /\ t < w[k][2]
            /\ ~ChunkOut.loop.broke

\* Eight tokens in windows of three with an overlap of one: 0-3, 2-5, 4-7, 6-8.
C28_Witness ==
    /\ ChunkDone
    /\ chunkInput.text.tokens = 8
    /\ chunkInput.chunk_size = 3
    /\ chunkInput.overlap = 1
    /\ ChunkOut.raised = "none"
    /\ ChunkOut.loop.chunks = << <<0, 3>>, <<2, 5>>, <<4, 7>>, <<6, 8>> >>


(***************************************************************************)
(* Further claims about the pipeline.                                      *)
(***************************************************************************)
ContentEvents == SelectSeq(events, LAMBDA e : e.type = "content")

\* C27: every content fragment sent is a non-empty string.
C27_FragmentsNonEmpty ==
    \A k \in 1..Len(ContentEvents) : ContentEvents[k].content # ""

\* C29: in a Hierarchical run over two or more processed chunks the reduce call
\* is the only call the stream passes through, it is started when every MAP
\* call of every batch has completed and its summary has been collected, and
\* until it is started no content but the truncation advisory has been sent.
C29_ReduceAfterAllMaps ==
    (MapRun /\ NumProcessed >= 2) =>
        /\ gen.status # "none" =>
               /\ gen.kind = "reduce"
               /\ \A p \in 1..NumProcessed : calls[p] = "done"
               /\ Len(chunk_summaries) = NumProcessed
               /\ gather = "none"
        /\ gen.status = "none" => Generated = <<>>

\* A run over more chunks than one batch holds, after an advisory, with the
\* reduce call delivering.
C29_Witness ==
    /\ MapRun
    /\ NumProcessed > MAX_PARALLEL_CHUNKS
    /\ Len(Advisories) = 1
    /\ gen.kind = "reduce"
    /\ gen.status = "inflight"
    /\ Generated # <<>>

\* C30: once a Hierarchical run (the strategy hierarchical, or an unknown one)
\* has passed the threshold check with a text of at least HIERARCHICAL_CHUNK_SIZE
\* characters, the list of chunks to process is not empty and the words per
\* chunk have been computed.
C30_ChunksToProcessNonEmpty ==
    (/\ request # <<>>
     /\ request.strategy \in {"hierarchical", "unknown"}
     /\ target_words > 0
     /\ text_len >= HIERARCHICAL_CHUNK_SIZE) =>
        /\ chunks_to_process # <<>>
        /\ words_per_chunk >= 50

=============================================================================
